---- MODULE Spec2Model ----
(***************************************************************************)
(* Model of the image-classification service: the lazily loaded            *)
(* ImageClassifier (app/models/classifier.py), its module-level singleton  *)
(* accessor get_classifier, and the two HTTP handlers of app/api/routes.py *)
(* (GET /health, POST /predict).                                           *)
(*                                                                         *)
(* The callers are run in one of three ways, fixed when the process        *)
(* starts: "single" is one thread that calls get_classifier().predict(...) *)
(* (the unit tests), "threads" is several OS threads doing so at once, and *)
(* "eventloop" is the server, whose async handlers run on one event loop.  *)
(* A handler keeps the event loop from the point it is resumed until it    *)
(* returns or awaits; threads interleave between statements.               *)
(***************************************************************************)
EXTENDS Integers, Sequences, FiniteSets, TLC

\* ------------------------------------------------------------------ bounds

\* Number of concurrent callers (threads, or HTTP requests in flight).
NumCallers == 2

\* Number of failures of the numeric engine (instantiation, device move,
\* switch to evaluation mode, forward pass) the environment injects in a run.
MaxFaults == 1

\* Size of the label set.  The code builds 1000 labels (classifier.py:71);
\* the model keeps the size a parameter, set here to a small value above the
\* HTTP layer's limit of 10.
NumLabels == 11

\* ------------------------------------------------------- program constants

\* routes.py:91   if top_k < 1 or top_k > 10
MinTopK == 1
MaxTopK == 10
\* classifier.py:113 and routes.py:72   top_k: int = 5
DefaultTopK == 5

Callers == 1..NumCallers
\* An ImageClassifier object is created only by a caller that saw the global
\* unset, so there are never more objects than callers.
Instances == 1..NumCallers
None == 0

\* ------------------------------------------------------------------ inputs

\* PIL images handed to predict: two decodable pictures and one picture of
\* zero width, which the transform pipeline cannot resize.
ValidImages == {"imgA", "imgB"}
Images == ValidImages \cup {"imgZero"}

\* Uploaded bodies: two encoded pictures and bytes that are no picture.
Blobs == {"bytesA", "bytesB", "garbage"}

\* Content types of an upload as <<type, subtype>>; <<>> is a missing
\* Content-Type header.
ContentTypes == {<<"image", "jpeg">>, <<"text", "plain">>, <<>>}

\* top_k values: below, at and above both ranges.
TopKs == {-1, 0, 1, 3, MaxTopK, MaxTopK + 1, NumLabels, NumLabels + 1}

\* ---------------------------------------------------------- pure functions

LabelIndexes == 0..(NumLabels - 1)

\* class_labels[i] = f"class_{i}"
ClassLabel(i) == <<"class_", i>>

\* Image.open(io.BytesIO(contents)): the picture, or "error" when the bytes
\* cannot be identified as a picture.
ImageOpen(blob) ==
    CASE blob = "bytesA" -> "imgA"
      [] blob = "bytesB" -> "imgB"
      [] OTHER -> "error"

\* preprocess_image raises for a picture with a zero dimension.
PreprocessFails(image) == image \notin ValidImages

\* The scorer's raw output for a picture: one integer logit per label.
\* imgA has pairwise distinct logits; imgB has its two largest logits equal
\* (labels 1 and 4).
Logits(image) ==
    [i \in LabelIndexes |->
        IF image = "imgB" /\ i \in {1, 4}
        THEN NumLabels
        ELSE (i * 7) % NumLabels]

\* exp(-d) for an integer d >= 0, in millionths, rounded to the nearest:
\* round(10^6 * e^(-d)), which is 0 from d = 15 on.
ExpNeg(d) ==
    LET table == <<1000000, 367879, 135335, 49787, 18316, 6738, 2479, 912, 335, 123,
                   45, 17, 6, 2, 1>>
    IN IF d < Len(table) THEN table[d + 1] ELSE 0

\* The largest score of a vector.
MaxScore(x) == CHOOSE m \in {x[i] : i \in DOMAIN x} : \A i \in DOMAIN x : x[i] <= m

RECURSIVE SumOver(_, _)
SumOver(f, S) ==
    IF S = {} THEN 0
    ELSE LET x == CHOOSE y \in S : TRUE
         IN f[x] + SumOver(f, S \ {x})

\* softmax(outputs[0], dim=0): p[i] = e^(x[i] - max) / sum_j e^(x[j] - max),
\* the form torch evaluates.  The exponentials are fixed-point numbers of six
\* decimals where torch has float32; a probability is the numerator num[i]
\* over the common denominator den.
Softmax(x) ==
    LET w == [i \in DOMAIN x |-> ExpNeg(MaxScore(x) - x[i])]
    IN [num |-> w, den |-> SumOver(w, DOMAIN x)]

\* torch.topk raises when k is not in 0..n.
TopKRaises(n, k) == k < 0 \/ k > n

\* torch.topk(probabilities, k): every sequence of k distinct indexes of the
\* largest values in descending order of value.  The order of equal values
\* is not specified by torch, so each order is a possible result.
RECURSIVE TopKFrom(_, _, _)
TopKFrom(p, rest, k) ==
    IF k = 0 THEN {<<>>}
    ELSE LET best == {i \in rest : \A j \in rest : p[j] <= p[i]}
         IN UNION {{<<i>> \o s : s \in TopKFrom(p, rest \ {i}, k - 1)} : i \in best}

\* Variant of TopK: the selected indexes come back in ascending order of value.
TopKAscending(probs, k) ==
    {[j \in 1..k |-> s[k + 1 - j]] : s \in TopKFrom(probs.num, DOMAIN probs.num, k)}

TopK(probs, k) == TopKFrom(probs.num, DOMAIN probs.num, k)

\* classifier.py:150   predictions[0][0] raises IndexError on an empty list.
LogRaises(preds) == Len(preds) = 0

\* Variant of FormatResults: the label list is read one place off.
FormatResultsOffByOne(probs, idxs) ==
    [j \in 1..Len(idxs) |->
        <<ClassLabel(idxs[j] + 1), <<probs.num[idxs[j]], probs.den>>>>]

\* The loop of predict: (class_labels[idx], prob) for each selected index.
FormatResults(probs, idxs) ==
    [j \in 1..Len(idxs) |-> <<ClassLabel(idxs[j]), <<probs.num[idxs[j]], probs.den>>>>]

\* ------------------------------------------------------------------- state

VARIABLES
    runtime,              \* "single", "threads" or "eventloop": what runs the callers
    model_device,         \* settings.model_device (MODEL_DEVICE), NoDevice when unset
    cuda_available,       \* torch.cuda.is_available()
    device,               \* device[i]: self.device of object i
    mc,                   \* the call of ModelConfig.get_model in progress, its locals and log
    classifier_instance,  \* the module global _classifier_instance (None or an object)
    nInstances,           \* ImageClassifier objects created so far
    model,                \* model[i]: self.model of object i (None or a scorer)
    onDevice,             \* onDevice[i]: .to(device) has run on the scorer model[i] names
    evalMode,             \* evalMode[i]: .eval() has run on the scorer model[i] names
    constructions,        \* constructions[i]: scorers built for object i
    called,               \* called[i]: predict has been entered on object i
    succeeded,            \* succeeded[i]: a predict on object i has returned a result
    loop,                 \* the request whose handler occupies the event loop, or None
    pc,                   \* pc[c]: the statement caller c is at
    req,                  \* req[c]: the arguments of c's call
    clf,                  \* clf[c]: the object c's call runs on (classifier / self)
    out,                  \* out[c]: what c's call returned or raised
    faults                \* engine failures injected so far

vars == <<runtime, model_device, cuda_available, device, mc, classifier_instance, nInstances, model, onDevice, evalMode,
          constructions, called, succeeded, loop, pc, req, clf, out, faults>>

scorerVars == <<model, onDevice, evalMode, constructions>>
globalVars == <<classifier_instance, nInstances, device>>
envVars == <<runtime, model_device, cuda_available>>

\* No call of ModelConfig.get_model is in progress.
NoCall == [pc |-> "idle", requested |-> "none", model_name |-> "none", device |-> "none",
           warned |-> FALSE, info |-> <<>>, class |-> "none", weights |-> <<>>,
           placed |-> "none", eval |-> FALSE, raised |-> "none"]

NoReq == [op |-> "none", image |-> "none", blob |-> "none", ctype |-> <<>>, top_k |-> 0]

NoOut == [status |-> 0, raised |-> "none", cause |-> "none", detail |-> "none",
          predictions |-> <<>>, indices |-> <<>>, forward |-> "none",
          model_loaded |-> FALSE, scorer_loaded |-> FALSE]

\* The scorer of object i has been created, moved to the device and put in
\* evaluation mode.
Loaded(i) == model[i] # None /\ onDevice[i] /\ evalMode[i]

\* Variant of ModelLoaded: the health response reports the model loaded
\* whatever self.model is.
ModelLoadedAlways(m) == TRUE

\* routes.py:45   model_loaded = classifier.model is not None
ModelLoaded(m) == m # None

\* The readiness indicator of object i.
IsReady(i) == ModelLoaded(model[i])

\* Variant of NewClassifierModel: the constructor loads the scorer eagerly.
NewClassifierModelEager == None + 1

\* ImageClassifier.__init__: self.model = None
NewClassifierModel == None

\* config.py:32   model_device: Optional[str] = None
NoDevice == "none"
Devices == {"cpu", "cuda"}

\* classifier.py:43   device or ('cuda' if torch.cuda.is_available() else 'cpu')
ResolveDevice(arg, cuda) ==
    IF arg # NoDevice THEN arg ELSE IF cuda THEN "cuda" ELSE "cpu"

\* classifier.py:171   ImageClassifier(): get_classifier passes no device, so
\* the constructor sees its default, None, whatever settings.model_device is.
GetClassifierDevice(configured) == NoDevice

\* ImageClassifier.__init__ as get_classifier calls it: self.device
NewClassifierDevice == ResolveDevice(GetClassifierDevice(model_device), cuda_available)

\* The environments a run starts in.  The single thread ranges over every
\* setting of MODEL_DEVICE and of the accelerator; the concurrent runtimes,
\* which are there for the interleavings, run with the default of config.py:32
\* (model_device unset) on a machine without accelerator.
Environments(rt) ==
    IF rt = "single" THEN ({NoDevice} \cup Devices) \X BOOLEAN ELSE {<<NoDevice, FALSE>>}

Init ==
    /\ runtime \in {"single", "threads", "eventloop"}
    /\ \E env \in Environments(runtime) : model_device = env[1] /\ cuda_available = env[2]
    /\ device = [i \in Instances |-> NoDevice]
    /\ mc = NoCall
    /\ classifier_instance = None
    /\ nInstances = 0
    /\ model = [i \in Instances |-> None]
    /\ onDevice = [i \in Instances |-> FALSE]
    /\ evalMode = [i \in Instances |-> FALSE]
    /\ constructions = [i \in Instances |-> 0]
    /\ called = [i \in Instances |-> FALSE]
    /\ succeeded = [i \in Instances |-> FALSE]
    /\ loop = None
    /\ pc = [c \in Callers |-> "idle"]
    /\ req = [c \in Callers |-> NoReq]
    /\ clf = [c \in Callers |-> None]
    /\ out = [c \in Callers |-> NoOut]
    /\ faults = 0

\* A thread runs whenever it is scheduled; a handler runs while it holds the
\* event loop.
CanRun(c) == runtime \in {"single", "threads"} \/ loop = c

\* The arguments the callers draw.  The single thread and the first request
\* of the server range over the whole input sets; concurrent threads and the
\* other requests, which are there for the interleavings, make the default
\* call.
DirectCallers == IF runtime = "single" THEN {1} ELSE Callers
DirectImages(c) == IF runtime = "single" THEN Images ELSE {"imgA"}
DirectTopKs(c) == IF runtime = "single" THEN TopKs ELSE {DefaultTopK}
HttpBlobs(c) == IF c = 1 THEN Blobs ELSE {"bytesA"}
HttpContentTypes(c) == IF c = 1 THEN ContentTypes ELSE {<<"image", "jpeg">>}
HttpTopKs(c) == IF c = 1 THEN TopKs ELSE {DefaultTopK}

\* ---------------------------------------------------------------- outcomes

\* Variant of TopKRejected: the upper limit is off by one.
TopKRejectedOffByOne(k) == k < MinTopK \/ k > MaxTopK + 1

\* routes.py:91   the range check of the HTTP layer
TopKRejected(k) == k < MinTopK \/ k > MaxTopK

\* routes.py:98   not file.content_type or not file.content_type.startswith("image/")
ContentTypeRejected(ctype) == Len(ctype) = 0 \/ ctype[1] # "image"

\* routes.py:92 and 99   raise HTTPException(status_code=400, ...), outside the try
BadRequest(detail) ==
    [NoOut EXCEPT !.status = 400, !.raised = "HTTPException", !.detail = detail]

\* Variant of PredictError: the exception leaves predict as it was raised.
PredictErrorUnwrapped(cause) == "RuntimeError"

\* classifier.py:153-155   except Exception as e: raise ValueError(...): the
\* class of the exception predict raises, whatever step raised inside it.
PredictError(cause) == "ValueError"

\* What a call hands its caller when the step `cause` raised.  raised is the
\* exception that reached the caller of predict (or of Image.open, which the
\* handler calls itself); routes.py:134-139: the handler answers every
\* exception of its try block with 500.
Failure(op, cause, fwd) ==
    [NoOut EXCEPT !.status = IF op = "post_predict" THEN 500 ELSE 0,
                  !.raised = IF cause = "open" THEN "UnidentifiedImageError"
                             ELSE PredictError(cause),
                  !.cause = cause,
                  !.detail = "Failed to process image",
                  !.forward = fwd]

\* classifier.py:151 return predictions; routes.py:128 PredictionResponse(success=True, ...)
Success(op, preds, idxs, fwd) ==
    [NoOut EXCEPT !.status = IF op = "post_predict" THEN 200 ELSE 0,
                  !.predictions = preds, !.indices = idxs, !.forward = fwd]

\* The call of c ends with outcome o; a handler gives the event loop back.
Finish(c, o) ==
    /\ pc' = [pc EXCEPT ![c] = "done"]
    /\ out' = [out EXCEPT ![c] = o]
    /\ loop' = IF loop = c THEN None ELSE loop

\* ----------------------------------------------------------- entry points

\* A thread calls get_classifier().predict(image, top_k=k).
CallPredict(c, image, k) ==
    /\ runtime \in {"single", "threads"}
    /\ c \in DirectCallers
    /\ pc[c] = "idle"
    /\ req' = [req EXCEPT ![c] = [NoReq EXCEPT !.op = "predict", !.image = image, !.top_k = k]]
    /\ pc' = [pc EXCEPT ![c] = "get_check"]
    /\ UNCHANGED <<envVars, mc, globalVars, scorerVars, called, succeeded, loop, clf, out, faults>>

\* routes.py:90-106  POST /predict up to its await: the two checks, each
\* answered with 400, then the handler waits for the upload to be read.
PostPredict(c, blob, ctype, k) ==
    /\ runtime = "eventloop"
    /\ pc[c] = "idle"
    /\ loop = None
    /\ req' = [req EXCEPT ![c] = [NoReq EXCEPT !.op = "post_predict", !.blob = blob,
                                               !.ctype = ctype, !.top_k = k]]
    /\ IF TopKRejected(k)
       THEN /\ pc' = [pc EXCEPT ![c] = "done"]
            /\ out' = [out EXCEPT ![c] = BadRequest("top_k must be between 1 and 10")]
       ELSE IF ContentTypeRejected(ctype)
       THEN /\ pc' = [pc EXCEPT ![c] = "done"]
            /\ out' = [out EXCEPT ![c] = BadRequest("Invalid file type")]
       ELSE /\ pc' = [pc EXCEPT ![c] = "await_read"]
            /\ out' = out
    /\ UNCHANGED <<envVars, mc, globalVars, scorerVars, called, succeeded, loop, clf, faults>>

\* routes.py:106-114  the handler is resumed with the upload's bytes and keeps
\* the event loop: Image.open, whose exception the handler answers with 500,
\* then the call of get_classifier.
ResumeRead(c) ==
    /\ pc[c] = "await_read"
    /\ loop = None
    /\ LET image == ImageOpen(req[c].blob)
       IN IF image = "error"
          THEN /\ pc' = [pc EXCEPT ![c] = "done"]
               /\ out' = [out EXCEPT ![c] = Failure("post_predict", "open", "none")]
               /\ UNCHANGED <<req, loop>>
          ELSE /\ req' = [req EXCEPT ![c].image = image]
               /\ pc' = [pc EXCEPT ![c] = "get_check"]
               /\ loop' = c
               /\ out' = out
    /\ UNCHANGED <<envVars, mc, globalVars, scorerVars, called, succeeded, clf, faults>>

\* Variant of InstanceMissing: get_classifier builds an object on every call.
InstanceMissingAlways(inst) == TRUE

\* classifier.py:170   _classifier_instance is None
InstanceMissing(inst) == inst = None

\* routes.py:30-46  GET /health: no await, so the handler runs in one piece
\* when the event loop is free.  get_classifier creates the object if the
\* global is unset; the response reports classifier.model is not None.
HealthCheck(c) ==
    /\ runtime = "eventloop"
    /\ pc[c] = "idle"
    /\ loop = None
    /\ LET fresh == InstanceMissing(classifier_instance)
           i == IF fresh THEN nInstances + 1 ELSE classifier_instance
       IN /\ classifier_instance' = i
          /\ nInstances' = IF fresh THEN nInstances + 1 ELSE nInstances
          /\ model' = IF fresh THEN [model EXCEPT ![i] = NewClassifierModel] ELSE model
          /\ device' = IF fresh THEN [device EXCEPT ![i] = NewClassifierDevice] ELSE device
          /\ req' = [req EXCEPT ![c] = [NoReq EXCEPT !.op = "get_health"]]
          /\ clf' = [clf EXCEPT ![c] = i]
          /\ out' = [out EXCEPT ![c] =
                        [NoOut EXCEPT !.status = 200, !.detail = "healthy",
                                      !.model_loaded = ModelLoaded(model'[i]),
                                      !.scorer_loaded = /\ model'[i] # None
                                                        /\ onDevice[i]
                                                        /\ evalMode[i]]]
          /\ pc' = [pc EXCEPT ![c] = "done"]
    /\ UNCHANGED <<envVars, mc, onDevice, evalMode, constructions, called, succeeded,
                   loop, faults>>

\* ------------------------------------------------------------ get_classifier

\* classifier.py:170   if _classifier_instance is None
GetCheck(c) ==
    /\ pc[c] = "get_check"
    /\ CanRun(c)
    /\ pc' = [pc EXCEPT ![c] =
                IF InstanceMissing(classifier_instance) THEN "get_create" ELSE "get_return"]
    /\ UNCHANGED <<envVars, mc, globalVars, scorerVars, called, succeeded, loop, req, clf, out, faults>>

\* classifier.py:171   _classifier_instance = ImageClassifier()
GetCreate(c) ==
    /\ pc[c] = "get_create"
    /\ CanRun(c)
    /\ nInstances' = nInstances + 1
    /\ classifier_instance' = nInstances + 1
    /\ model' = [model EXCEPT ![nInstances + 1] = NewClassifierModel]
    /\ device' = [device EXCEPT ![nInstances + 1] = NewClassifierDevice]
    /\ pc' = [pc EXCEPT ![c] = "get_return"]
    /\ UNCHANGED <<envVars, mc, onDevice, evalMode, constructions, called, succeeded,
                   loop, req, clf, out, faults>>

\* classifier.py:172   return _classifier_instance, and the caller enters
\* predict on the object returned.
GetReturn(c) ==
    /\ pc[c] = "get_return"
    /\ CanRun(c)
    /\ clf' = [clf EXCEPT ![c] = classifier_instance]
    /\ called' = [called EXCEPT ![classifier_instance] = TRUE]
    /\ pc' = [pc EXCEPT ![c] = "load_check"]
    /\ UNCHANGED <<envVars, mc, globalVars, scorerVars, succeeded, loop, req, out, faults>>

\* --------------------------------------------------------------- _load_model

\* classifier.py:80   if self.model is None
LoadCheck(c) ==
    /\ pc[c] = "load_check"
    /\ CanRun(c)
    /\ pc' = [pc EXCEPT ![c] = IF model[clf[c]] = None THEN "construct" ELSE "infer"]
    /\ UNCHANGED <<envVars, mc, globalVars, scorerVars, called, succeeded, loop, req, clf, out, faults>>

\* The exception of a step of predict: classifier.py:153-155.
Raise(c, cause, fwd) == Finish(c, Failure(req[c].op, cause, fwd))

\* The outcomes of a call into the numeric engine: it returns (TRUE), or,
\* while the environment has failures left to inject, raises (FALSE).
EngineOutcomes == IF faults < MaxFaults THEN BOOLEAN ELSE {TRUE}
Injected(ok) == IF ok THEN faults ELSE faults + 1

\* classifier.py:83   self.model = models.resnet18(weights=...): a new scorer,
\* in training mode and not yet moved, is stored in self.model; or the
\* instantiation raises and self.model is left as it was.
Construct(c, ok) ==
    /\ pc[c] = "construct"
    /\ CanRun(c)
    /\ LET i == clf[c]
       IN IF ok
          THEN /\ constructions' = [constructions EXCEPT ![i] = @ + 1]
               /\ model' = [model EXCEPT ![i] = constructions[i] + 1]
               /\ onDevice' = [onDevice EXCEPT ![i] = FALSE]
               /\ evalMode' = [evalMode EXCEPT ![i] = FALSE]
               /\ pc' = [pc EXCEPT ![c] = "to"]
               /\ UNCHANGED <<out, loop>>
          ELSE /\ Raise(c, "construct", "none")
               /\ UNCHANGED scorerVars
    /\ faults' = Injected(ok)
    /\ UNCHANGED <<envVars, mc, globalVars, called, succeeded, req, clf>>

\* classifier.py:84   self.model.to(self.device), on the scorer self.model
\* names now; it may raise (unsupported device, out of memory).
ToDevice(c, ok) ==
    /\ pc[c] = "to"
    /\ CanRun(c)
    /\ IF ok
       THEN /\ onDevice' = [onDevice EXCEPT ![clf[c]] = TRUE]
            /\ pc' = [pc EXCEPT ![c] = "eval"]
            /\ UNCHANGED <<out, loop>>
       ELSE /\ Raise(c, "to", "none")
            /\ UNCHANGED onDevice
    /\ faults' = Injected(ok)
    /\ UNCHANGED <<envVars, mc, globalVars, model, evalMode, constructions, called,
                   succeeded, req, clf>>

\* classifier.py:85   self.model.eval(), on the scorer self.model names now.
SetEval(c, ok) ==
    /\ pc[c] = "eval"
    /\ CanRun(c)
    /\ IF ok
       THEN /\ evalMode' = [evalMode EXCEPT ![clf[c]] = TRUE]
            /\ pc' = [pc EXCEPT ![c] = "infer"]
            /\ UNCHANGED <<out, loop>>
       ELSE /\ Raise(c, "eval", "none")
            /\ UNCHANGED evalMode
    /\ faults' = Injected(ok)
    /\ UNCHANGED <<envVars, mc, globalVars, model, onDevice, constructions, called,
                   succeeded, req, clf>>

\* -------------------------------------------------------------------- predict

\* classifier.py:108 and 137   the input tensor is moved to self.device, the
\* scorer is where _load_model left it: a scorer that was built (on the CPU)
\* and not moved cannot take an input that lives on another device, and the
\* forward pass raises.
DeviceMismatch(i) == device[i] # "cpu" /\ ~onDevice[i]

\* classifier.py:133-155 (and routes.py:117-139 for a handler): preprocess,
\* forward pass on the scorer self.model names now, softmax, topk, the result
\* list and the log line that reads predictions[0].  fwdOk: the numeric engine
\* runs the forward pass without raising.
Infer(c, fwdOk) ==
    /\ pc[c] = "infer"
    /\ CanRun(c)
    /\ LET i == clf[c]
           image == req[c].image
           k == req[c].top_k
           fwd == IF Loaded(i) THEN "loaded" ELSE "partial"
       IN IF PreprocessFails(image)
          THEN Raise(c, "preprocess", "none") /\ UNCHANGED succeeded
          ELSE IF DeviceMismatch(i) \/ ~fwdOk
          THEN Raise(c, "forward", fwd) /\ UNCHANGED succeeded
          ELSE IF TopKRaises(NumLabels, k)
          THEN Raise(c, "topk", fwd) /\ UNCHANGED succeeded
          ELSE \E idxs \in TopK(Softmax(Logits(image)), k) :
                 LET preds == FormatResults(Softmax(Logits(image)), idxs)
                 IN IF LogRaises(preds)
                    THEN Raise(c, "log", fwd) /\ UNCHANGED succeeded
                    ELSE /\ Finish(c, Success(req[c].op, preds, idxs, fwd))
                         /\ succeeded' = [succeeded EXCEPT ![i] = TRUE]
    /\ faults' = IF PreprocessFails(req[c].image) \/ DeviceMismatch(clf[c])
                 THEN faults ELSE Injected(fwdOk)
    /\ UNCHANGED <<envVars, mc, globalVars, scorerVars, called, req, clf>>

\* The caller takes the result; it may call again.  A thread of the
\* "threads" runtime makes its one call and ends.
Return(c) ==
    /\ pc[c] = "done"
    /\ runtime # "threads"
    /\ pc' = [pc EXCEPT ![c] = "idle"]
    /\ req' = [req EXCEPT ![c] = NoReq]
    /\ clf' = [clf EXCEPT ![c] = None]
    /\ out' = [out EXCEPT ![c] = NoOut]
    /\ UNCHANGED <<envVars, mc, globalVars, scorerVars, called, succeeded, loop, faults>>

Next ==
    \/ \E c \in Callers :
          \E image \in DirectImages(c), k \in DirectTopKs(c) : CallPredict(c, image, k)
    \/ \E c \in Callers :
          \E blob \in HttpBlobs(c), ctype \in HttpContentTypes(c), k \in HttpTopKs(c) :
             PostPredict(c, blob, ctype, k)
    \/ \E c \in Callers : ResumeRead(c)
    \/ \E c \in Callers : HealthCheck(c)
    \/ \E c \in Callers : GetCheck(c)
    \/ \E c \in Callers : GetCreate(c)
    \/ \E c \in Callers : GetReturn(c)
    \/ \E c \in Callers : LoadCheck(c)
    \/ \E c \in Callers, ok \in EngineOutcomes : Construct(c, ok)
    \/ \E c \in Callers, ok \in EngineOutcomes : ToDevice(c, ok)
    \/ \E c \in Callers, ok \in EngineOutcomes : SetEval(c, ok)
    \/ \E c \in Callers, fwdOk \in EngineOutcomes : Infer(c, fwdOk)
    \/ \E c \in Callers : Return(c)

Spec == Init /\ [][Next]_vars

\* ------------------------------------------------------ ModelConfig.get_model

\* model_config.py:23-44   ModelConfig.MODELS
MODELS ==
    [name \in {"resnet18", "resnet50", "resnet101", "efficientnet_b2"} |->
        CASE name = "resnet18" ->
               [class |-> "resnet18", weights |-> <<"ResNet18_Weights", "IMAGENET1K_V1">>,
                description |-> "Fast and lightweight"]
          [] name = "resnet50" ->
               [class |-> "resnet50", weights |-> <<"ResNet50_Weights", "IMAGENET1K_V2">>,
                description |-> "Better accuracy, moderate speed"]
          [] name = "resnet101" ->
               [class |-> "resnet101", weights |-> <<"ResNet101_Weights", "IMAGENET1K_V2">>,
                description |-> "Best accuracy, slower"]
          [] name = "efficientnet_b2" ->
               [class |-> "efficientnet_b2",
                weights |-> <<"EfficientNet_B2_Weights", "IMAGENET1K_V1">>,
                description |-> "Efficient and accurate"]]

\* The identifiers a caller asks for: the keys of MODELS, and strings that are
\* not keys (among them efficientnet_b0, which the module docstring lists).
ModelNames ==
    DOMAIN MODELS \cup {"efficientnet_b0", "resnet34", "vgg16", "ResNet18", "resnet18 ", ""}

\* Variant of DefaultModelName: the fallback is another key of MODELS.
DefaultModelNameOther == "resnet50"

\* model_config.py:60   model_name = "resnet18"
DefaultModelName == "resnet18"

\* The variables of the service, which get_model does not touch.
appVars == <<envVars, globalVars, scorerVars, called, succeeded, loop, pc, req, clf, out, faults>>

\* ModelConfig.get_model(model_name, device) is called.
GetModelCall(name, dev) ==
    /\ mc.pc = "idle"
    /\ mc' = [NoCall EXCEPT !.pc = "check", !.requested = name, !.model_name = name,
                            !.device = dev]
    /\ UNCHANGED appVars

\* model_config.py:58-60   if model_name not in cls.MODELS: warning, model_name = "resnet18"
GetModelCheck ==
    /\ mc.pc = "check"
    /\ mc' = IF mc.model_name \notin DOMAIN MODELS
             THEN [mc EXCEPT !.pc = "lookup", !.warned = TRUE, !.model_name = DefaultModelName]
             ELSE [mc EXCEPT !.pc = "lookup"]
    /\ UNCHANGED appVars

\* model_config.py:62-63   model_info = cls.MODELS[model_name] (KeyError for a
\* missing key) and the info line.
GetModelLookup ==
    /\ mc.pc = "lookup"
    /\ mc' = IF mc.model_name \notin DOMAIN MODELS
             THEN [mc EXCEPT !.pc = "done", !.raised = "KeyError"]
             ELSE [mc EXCEPT !.pc = "instantiate",
                             !.info = <<"Loading", mc.model_name,
                                        MODELS[mc.model_name].description>>]
    /\ UNCHANGED appVars

\* model_config.py:65   model = model_info["class"](weights=model_info["weights"]);
\* the engine builds the network and loads the weights, or raises.
GetModelInstantiate(ok) ==
    /\ mc.pc = "instantiate"
    /\ mc' = IF ok
             THEN [mc EXCEPT !.pc = "to", !.class = MODELS[mc.model_name].class,
                             !.weights = MODELS[mc.model_name].weights]
             ELSE [mc EXCEPT !.pc = "done", !.raised = "engine"]
    /\ UNCHANGED appVars

\* model_config.py:66   model.to(device)
GetModelTo(ok) ==
    /\ mc.pc = "to"
    /\ mc' = IF ok
             THEN [mc EXCEPT !.pc = "eval", !.placed = mc.device]
             ELSE [mc EXCEPT !.pc = "done", !.raised = "engine"]
    /\ UNCHANGED appVars

\* model_config.py:67-69   model.eval(); return model
GetModelEval ==
    /\ mc.pc = "eval"
    /\ mc' = [mc EXCEPT !.pc = "done", !.eval = TRUE]
    /\ UNCHANGED appVars

\* The caller has taken the result; the next call can start.
GetModelDone ==
    /\ mc.pc = "done"
    /\ mc' = NoCall
    /\ UNCHANGED appVars

InitModelConfig ==
    /\ Init
    /\ runtime = "single"
    /\ model_device = NoDevice
    /\ cuda_available = FALSE

NextModelConfig ==
    \/ \E name \in ModelNames, dev \in Devices : GetModelCall(name, dev)
    \/ GetModelCheck
    \/ GetModelLookup
    \/ \E ok \in BOOLEAN : GetModelInstantiate(ok)
    \/ \E ok \in BOOLEAN : GetModelTo(ok)
    \/ GetModelEval
    \/ GetModelDone

SpecModelConfig == InitModelConfig /\ [][NextModelConfig]_vars

\* ------------------------------------------------------------------- claims

Done(c) == pc[c] = "done"
PredictOps == {"predict", "post_predict"}
LoadSteps == {"construct", "to", "eval"}

\* A caller is inside _load_model on object i, past the construction.
Loading(i) == \E c \in Callers : clf[c] = i /\ pc[c] \in {"to", "eval"}

\* C1: over the lifetime of one ImageClassifier object the scorer is built at
\* most once, however many predict calls run and however they interleave.
C1_ConstructedAtMostOnce == \A i \in Instances : constructions[i] <= 1

\* C2: no predict call runs the forward pass on a scorer that has not been
\* created, moved to the device and put in evaluation mode.
C2_ForwardOnLoadedScorer == \A c \in Callers : out[c].forward # "partial"

\* C3: a construction that failed at any step leaves the scorer unmarked
\* (self.model None), so that the next predict call re-attempts it: the object
\* is never left with a scorer that is set, not fully initialised, and that
\* nobody is initialising, which every later call would take as loaded.
C3_FailedLoadNotMarkedLoaded ==
    \A i \in Instances : IsReady(i) /\ ~Loaded(i) => Loading(i)

\* C4: a new classifier is not ready before predict is first entered on it,
\* and once a predict call on it has returned a result it is ready for good.
C4_LazyLoading ==
    \A i \in Instances :
        /\ ~called[i] => ~IsReady(i)
        /\ succeeded[i] => IsReady(i)

\* C4 witness: a predict call has returned a result on a ready object, and
\* another object exists on which predict was never entered.
C4_Witness ==
    \E c \in Callers :
        /\ Done(c) /\ req[c].op = "predict" /\ out[c].raised = "none"
        /\ succeeded[clf[c]] /\ IsReady(clf[c])
        /\ \E i \in Instances : i <= nInstances /\ ~called[i] /\ ~IsReady(i)

\* C5: the model_loaded flag of a health response is true exactly when the
\* scorer has completed loading.
C5_ReadyIffLoaded ==
    \A c \in Callers :
        Done(c) /\ req[c].op = "get_health" =>
            (out[c].model_loaded <=> out[c].scorer_loaded)

\* C6 as stated: a forward pass that fails on a loaded scorer makes predict
\* fail with PredictionError.
C6_RaisesPredictionError ==
    \A c \in Callers :
        Done(c) /\ out[c].cause = "forward" /\ out[c].forward = "loaded" =>
            out[c].raised = "PredictionError"

\* C6 as amended: a forward pass that fails on a loaded scorer makes predict
\* fail with ValueError; the step that fails leaves the scorer as it was (same
\* scorer, same flags, no construction), and a call that enters _load_model
\* on a loaded scorer goes to inference without constructing.
C6_ForwardFailureKeepsScorer ==
    /\ [](\A c \in Callers :
            Done(c) /\ out[c].cause = "forward" /\ out[c].forward = "loaded" =>
                out[c].raised = "ValueError")
    /\ [][\A c \in Callers :
            /\ (pc[c] = "infer" /\ pc'[c] = "done") => UNCHANGED scorerVars
            /\ (pc[c] = "load_check" /\ Loaded(clf[c]) /\ pc'[c] # "load_check") =>
                  (pc'[c] = "infer" /\ UNCHANGED scorerVars)]_vars

\* C6 witness: a call whose forward pass failed on the loaded scorer.
C6_Witness ==
    \E c \in Callers :
        /\ Done(c) /\ req[c].op = "predict"
        /\ out[c].cause = "forward" /\ out[c].forward = "loaded"
        /\ out[c].raised = "ValueError"
        /\ constructions[clf[c]] = 1 /\ Loaded(clf[c])

\* C7: predict itself rejects every top_k outside 1..label_set_size (0,
\* negative values, label_set_size + 1) by failing with InvalidArgumentError,
\* whatever the HTTP layer checks.
C7_RaisesInvalidArgumentError ==
    \A c \in Callers :
        Done(c) /\ req[c].op = "predict" /\ req[c].top_k \notin 1..NumLabels =>
            out[c].raised = "InvalidArgumentError"

\* C8: for a top_k in 1..label_set_size and a valid image, a predict call in
\* which the engine does not fail returns exactly top_k pairs, the j-th pair
\* being the label and the probability of the j-th selected index.
C8_ReturnsTopKPairs ==
    \A c \in Callers :
        /\ Done(c) /\ req[c].op \in PredictOps /\ req[c].image \in ValidImages
        /\ req[c].top_k \in 1..NumLabels
        /\ out[c].status # 400 /\ out[c].cause \notin LoadSteps \cup {"forward"}
        => /\ out[c].raised = "none"
           /\ Len(out[c].predictions) = req[c].top_k
           /\ Len(out[c].indices) = req[c].top_k
           /\ \A j \in 1..req[c].top_k :
                 /\ out[c].indices[j] \in LabelIndexes
                 /\ out[c].predictions[j][1] = <<"class_", out[c].indices[j]>>
                 /\ out[c].predictions[j][2] =
                       <<Softmax(Logits(req[c].image)).num[out[c].indices[j]],
                         Softmax(Logits(req[c].image)).den>>
           /\ \A j, m \in 1..req[c].top_k : j # m => out[c].indices[j] # out[c].indices[m]

\* C8 witness: predict returned label_set_size pairs for the image with ties.
C8_Witness ==
    \E c \in Callers :
        /\ Done(c) /\ req[c].op = "predict" /\ req[c].image = "imgB"
        /\ req[c].top_k = NumLabels /\ Len(out[c].predictions) = NumLabels

\* C9: POST /predict answers a top_k below 1 or above 10 with 400 before it
\* reads the file, gets the classifier or loads the model: such a request is
\* answered in the step it arrives in, and no step of it changes the scorer
\* or the classifier object.
C9_BadTopKIs400 ==
    /\ [](\A c \in Callers :
            req[c].op = "post_predict" /\ (req[c].top_k < 1 \/ req[c].top_k > 10) =>
                Done(c) /\ out[c].status = 400 /\ clf[c] = None)
    /\ [][\A c \in Callers :
            /\ pc'[c] # pc[c]
            /\ \/ req[c].op = "post_predict" /\ (req[c].top_k < 1 \/ req[c].top_k > 10)
               \/ req'[c].op = "post_predict" /\ (req'[c].top_k < 1 \/ req'[c].top_k > 10)
            => UNCHANGED <<scorerVars, globalVars, called, succeeded>>]_vars

\* C9 witness: an otherwise valid upload with top_k = 11 was answered 400.
C9_Witness ==
    \E c \in Callers :
        /\ Done(c) /\ req[c].op = "post_predict" /\ req[c].top_k = 11
        /\ req[c].blob = "bytesA" /\ req[c].ctype = <<"image", "jpeg">>
        /\ out[c].status = 400

\* C10: an upload that cannot be decoded, in a request that passes the top_k
\* and content-type checks, is answered as a client error (4xx).
C10_UndecodableIsClientError ==
    \A c \in Callers :
        /\ Done(c) /\ req[c].op = "post_predict"
        /\ req[c].top_k \in 1..10 /\ req[c].ctype = <<"image", "jpeg">>
        /\ req[c].blob = "garbage"
        => out[c].status \in 400..499

\* A call of predict, direct or through POST /predict, that returned a list.
Returned(c) ==
    Done(c) /\ req[c].op \in PredictOps /\ out[c].status # 400 /\ out[c].raised = "none"

\* a/b >= c/d for confidences kept as <<numerator, denominator>>.
ConfGeq(x, y) == IF x[2] = y[2] THEN x[1] >= y[1] ELSE x[1] * y[2] >= y[1] * x[2]

\* C11: every list predict or POST /predict returns is in non-increasing
\* order of confidence, and every confidence in it lies in [0, 1].
C11_SortedConfidencesInUnitInterval ==
    \A c \in Callers :
        Returned(c) =>
            LET preds == out[c].predictions
            IN /\ \A j \in 1..Len(preds) :
                     /\ preds[j][2][2] > 0
                     /\ 0 <= preds[j][2][1]
                     /\ preds[j][2][1] <= preds[j][2][2]
               /\ \A j \in 1..(Len(preds) - 1) : ConfGeq(preds[j][2], preds[j + 1][2])

\* C11 witness: a returned list of three whose first two confidences are
\* equal and whose third is strictly smaller.
C11_Witness ==
    \E c \in Callers :
        /\ Returned(c) /\ Len(out[c].predictions) = 3
        /\ out[c].predictions[1][2] = out[c].predictions[2][2]
        /\ ~ConfGeq(out[c].predictions[3][2], out[c].predictions[2][2])

\* C12: the ranking selects the top_k largest probabilities and breaks ties
\* by label index: of two labels with equal probability the lower index is
\* selected in preference to the higher and is listed before it.
C12_TiesByLowerIndexFirst ==
    \A c \in Callers :
        Returned(c) =>
            LET p == Softmax(Logits(req[c].image)).num
                idxs == out[c].indices
                Before(a, b) == p[a] > p[b] \/ (p[a] = p[b] /\ a < b)
                chosen == {idxs[j] : j \in 1..Len(idxs)}
            IN /\ \A j, m \in 1..Len(idxs) : j < m => Before(idxs[j], idxs[m])
               /\ \A a \in chosen, b \in LabelIndexes \ chosen : Before(a, b)

\* C13: get_classifier is a singleton accessor for the request handlers (and
\* for a sequential caller).  Nothing in the repository resets
\* _classifier_instance (the fixture of conftest.py does not compile), so the
\* stretch between two resets is the whole run: at most one ImageClassifier
\* object is ever created, and every call that has obtained an object holds
\* the one the global names.
C13_SingletonBetweenResets ==
    runtime \in {"single", "eventloop"} =>
        /\ nInstances <= 1
        /\ \A c \in Callers : clf[c] # None => clf[c] = classifier_instance
        /\ \A c, d \in Callers : (clf[c] # None /\ clf[d] # None) => clf[c] = clf[d]

\* C13 witness: a /predict handler and a /health handler hold the same
\* object, the only one created, on which an earlier request has succeeded.
C13_Witness ==
    /\ runtime = "eventloop"
    /\ nInstances = 1
    /\ \E c, d \in Callers :
          /\ req[c].op = "post_predict" /\ req[d].op = "get_health"
          /\ pc[c] = "infer" /\ Done(d)
          /\ clf[c] = classifier_instance /\ clf[c] = clf[d]
          /\ succeeded[clf[c]]

\* The steps of a /predict handler that build the scorer or run inference.
ScorerWork == {"construct", "to", "eval", "infer"}

\* C14: under the event loop the construction of the scorer and the inference
\* call run on a worker and leave the loop free: while a /predict request is
\* loading the model or running inference, a /health request of any other
\* client can be served.
C14_EventLoopNotStalled ==
    \A c \in Callers :
        (runtime = "eventloop" /\ req[c].op = "post_predict" /\ pc[c] \in ScorerWork)
        => \A d \in Callers \ {c} : pc[d] = "idle" => ENABLED HealthCheck(d)

\* C15: the device of the scorer that serves requests is the configured
\* device (settings.model_device) if one is set, otherwise the accelerator if
\* available, otherwise the CPU.
C15_DeviceResolvedFromSettings ==
    classifier_instance # None =>
        device[classifier_instance] =
            IF model_device # NoDevice THEN model_device
            ELSE IF cuda_available THEN "cuda" ELSE "cpu"

\* The identifiers ModelConfig supports, and the weights enumeration of each.
SupportedModels == {"resnet18", "resnet50", "resnet101", "efficientnet_b2"}
WeightsOf(name) ==
    CASE name = "resnet18" -> "ResNet18_Weights"
      [] name = "resnet50" -> "ResNet50_Weights"
      [] name = "resnet101" -> "ResNet101_Weights"
      [] name = "efficientnet_b2" -> "EfficientNet_B2_Weights"

\* C16: ModelConfig.get_model does not fail on an unknown identifier: for a
\* string outside the supported set it logs a warning and does what it does
\* for "resnet18" (same info line, same architecture and weights, placed on
\* the device asked for, in evaluation mode); for a supported identifier it
\* loads, without warning, the architecture and the weights of that name.
C16_UnknownModelFallsBack ==
    mc.pc = "done" =>
        /\ mc.raised # "KeyError"
        /\ mc.warned <=> mc.requested \notin SupportedModels
        /\ mc.info = <<"Loading",
                       IF mc.requested \in SupportedModels THEN mc.requested ELSE "resnet18",
                       IF mc.requested \in {"resnet50", "resnet101", "efficientnet_b2"}
                       THEN MODELS[mc.requested].description
                       ELSE "Fast and lightweight">>
        /\ mc.raised = "none" =>
              LET loaded == IF mc.requested \in SupportedModels THEN mc.requested
                            ELSE "resnet18"
              IN /\ mc.class = loaded
                 /\ mc.weights[1] = WeightsOf(loaded)
                 /\ mc.weights = IF loaded = "resnet18"
                                 THEN <<"ResNet18_Weights", "IMAGENET1K_V1">>
                                 ELSE MODELS[loaded].weights
                 /\ mc.placed = mc.device
                 /\ mc.eval

\* C16 witness: get_model("efficientnet_b0", "cpu") returned a resnet18 after
\* a warning.
C16_Witness ==
    /\ mc.pc = "done" /\ mc.requested = "efficientnet_b0" /\ mc.device = "cpu"
    /\ mc.warned /\ mc.raised = "none" /\ mc.class = "resnet18" /\ mc.eval

\* Caller c has its GET /health answered.
HealthAnswered(c) == Done(c) /\ req[c].op = "get_health"

\* C17: GET /health never triggers the construction of the scorer: a health
\* request leaves the load state of every object as it was (self.model, its
\* placement and mode, the number of constructions), every health request is
\* answered 200 with status "healthy", and a response reports model_loaded
\* only once a predict call has built the scorer of the object.
C17_HealthNeverLoads ==
    /\ [](\A c \in Callers :
            HealthAnswered(c) =>
                /\ out[c].status = 200
                /\ out[c].detail = "healthy"
                /\ out[c].raised = "none"
                /\ out[c].model_loaded =>
                      (called[clf[c]] /\ constructions[clf[c]] >= 1))
    /\ [][\A c \in Callers :
            (pc[c] = "idle" /\ pc'[c] = "done" /\ req'[c].op = "get_health")
            => UNCHANGED <<scorerVars, called, succeeded, faults>>]_vars

\* C17 witness: one health request was answered model_loaded false, and,
\* after a /predict request loaded the model, another model_loaded true.
C17_Witness ==
    \E c, d \in Callers :
        /\ HealthAnswered(c) /\ ~out[c].model_loaded
        /\ HealthAnswered(d) /\ out[d].model_loaded
        /\ clf[c] = clf[d] /\ succeeded[clf[d]]

====
